---- MODULE Spec2Model ----
(***************************************************************************)
(* Model of core/dbt/clients/jinja.py: the macro invocation engine         *)
(* (MacroGenerator, MacroStack), its exception translation, and the        *)
(* TemplateCache.                                                          *)
(***************************************************************************)
EXTENDS Integers, Sequences, FiniteSets, TLC

(* ------------------------------ bounds -------------------------------- *)

\* deepest chain of nested macro invocations on the main thread
MaxDepth == 3
\* deepest chain of nested macro invocations per thread in SpecThreads
ThreadDepth == 1
\* number of worker threads
NumThreads == 2
\* templates that can be compiled successfully in one run
MaxCompiles == 3
\* longest MacroStack built through the bare push/pop interface
MaxStack == 3
\* longest chain of operations applied to an Undefined object
MaxChain == 3
\* most modifiers written in one materialization tag
MaxModifiers == 2
\* deepest nesting of lists and mappings inside a test keyword argument
MaxNesting == 1

(* ------------------------------ inputs -------------------------------- *)

Threads == 1..NumThreads
MainThread == CHOOSE t \in Threads : \A u \in Threads : t <= u

\* macro nodes, named by their unique_id; "a" and "b" live in the same file
Nodes == {"a", "b", "c"}
package_name(n) == IF n = "c" THEN "q" ELSE "p"
original_file_path(n) == IF n = "c" THEN "f2" ELSE "f1"

\* the macros invoked through MacroGenerator
Macros == {"a", "c"}
\* the macros invoked by the threads of SpecThreads
ThreadMacros == {"a", "b"}

\* a generator's context, node and stack: TRUE when not None
Configs ==
    {[context |-> TRUE, node |-> TRUE, stack |-> TRUE],
     [context |-> FALSE, node |-> TRUE, stack |-> TRUE],
     [context |-> TRUE, node |-> FALSE, stack |-> TRUE],
     [context |-> TRUE, node |-> TRUE, stack |-> FALSE]}

\* values returned by macro bodies
Values == {"v1"}

\* exceptions raised by macro bodies: class and message (the carried value
\* for MacroReturn)
BodyRaises ==
    {<<"TypeError", "e1">>, <<"TypeError", "e2">>,
     <<"TemplateRuntimeError", "e1">>, <<"CompilationException", "e1">>,
     <<"MacroReturn", "v1">>, <<"MacroReturn", "v2">>, <<"ValueError", "e1">>}

None == "None"

(* ---------------------- outcomes of a Python call --------------------- *)

\* kind "None": nothing yet; "Return": normal return of msg; otherwise the
\* exception class.  node and stack are the attribution fields of a
\* CompilationException.  level, site and chain are history: the nesting
\* level and place at which the exception object was created, and the
\* macros of the invocations in flight at that moment, outermost first.
NoOutcome ==
    [kind |-> "None", msg |-> "", node |-> None, stack |-> <<>>,
     level |-> 0, site |-> "", chain |-> <<>>]

Return(v) == [NoOutcome EXCEPT !.kind = "Return", !.msg = v]

Raise(kind, msg, level, site, chain) ==
    [NoOutcome EXCEPT !.kind = kind, !.msg = msg, !.level = level,
                      !.site = site, !.chain = chain]

IsException(o) == o.kind \notin {"None", "Return"}

\* dbt.exceptions.raise_compiler_error(msg, node): a CompilationException
\* with the given message and owning node and an empty attribution chain
raise_compiler_error(msg, node, level, chain) ==
    [kind |-> "CompilationException", msg |-> msg, node |-> node,
     stack |-> <<>>, level |-> level, site |-> "handler", chain |-> chain]

(* ------------------------------ MacroStack ---------------------------- *)

\* the slot of a MacroStack's attributes that thread t sees
local_shared(t) == MainThread
local(t) == t

depth(cs) == Len(cs)

push_front(cs, name) == <<name>> \o cs
push(cs, name) == Append(cs, name)

\* pop(name): the new call_stack and what the call raised
pop_silent(cs, name) ==
    IF cs = <<>>
    THEN [call_stack |-> cs,
          raised |-> Raise("IndexError", "pop from empty list", 0, "pop", <<>>)]
    ELSE [call_stack |-> SubSeq(cs, 1, Len(cs) - 1), raised |-> NoOutcome]
pop(cs, name) ==
    IF cs = <<>>
    THEN [call_stack |-> cs,
          raised |-> Raise("IndexError", "pop from empty list", 0, "pop", <<>>)]
    ELSE LET got == cs[Len(cs)] IN
         [call_stack |-> SubSeq(cs, 1, Len(cs) - 1),
          raised |-> IF got # name
                     THEN Raise("InternalException",
                                "popped " \o got \o ", expected " \o name,
                                0, "pop", <<>>)
                     ELSE NoOutcome]

(* --------------------------- MacroGenerator --------------------------- *)

\* node.depends_on.add_macro(unique_id): added is the sequence of the
\* identities the invocation has passed to it so far
add_macro(added, unique_id) == Append(added, unique_id)

\* track_call up to its yield, for a generator with a stack and a node:
\* cs is the thread's call_stack
track_call_enter_every(cs, added, unique_id) ==
    [call_stack |-> push(cs, unique_id),
     added |-> add_macro(added, unique_id)]
track_call_enter(cs, added, unique_id) ==
    [call_stack |-> push(cs, unique_id),
     added |-> IF depth(cs) = 0 THEN add_macro(added, unique_id) ELSE added]

\* track_call after its yield (the finally clause): out is what the body of
\* the with statement produced; an exception raised by pop replaces it
track_call_exit_no_finally(cs, unique_id, out) ==
    IF IsException(out)
    THEN [call_stack |-> cs, out |-> out]
    ELSE LET p == pop(cs, unique_id) IN
         [call_stack |-> p.call_stack,
          out |-> IF IsException(p.raised) THEN p.raised ELSE out]
track_call_exit(cs, unique_id, out) ==
    LET p == pop(cs, unique_id) IN
    [call_stack |-> p.call_stack,
     out |-> IF IsException(p.raised) THEN p.raised ELSE out]

\* BaseMacroGenerator.exception_handler: no macro is attached
base_exception_handler(macro, level, e) ==
    IF e.kind \in {"TypeError", "TemplateRuntimeError"}
    THEN raise_compiler_error(e.msg, None, level, e.chain)
    ELSE e

\* MacroGenerator.exception_handler applied to what its body produced
exception_handler_twice(macro, level, e) ==
    IF e.kind \in {"TypeError", "TemplateRuntimeError"}
    THEN [raise_compiler_error(e.msg, macro, level, e.chain)
            EXCEPT !.stack = <<macro>>]
    ELSE IF e.kind = "CompilationException"
    THEN [e EXCEPT !.stack = Append(@, macro)]
    ELSE e
exception_handler(macro, level, e) ==
    IF e.kind \in {"TypeError", "TemplateRuntimeError"}
    THEN raise_compiler_error(e.msg, macro, level, e.chain)
    ELSE IF e.kind = "CompilationException"
    THEN [e EXCEPT !.stack = Append(@, macro)]
    ELSE e

\* call_macro from the macro's outcome on: MacroReturn is caught innermost
\* and becomes a normal return, which passes the handler untouched
invoke_outcome_no_except(macro, level, e) ==
    exception_handler(macro, level, e)
invoke_outcome(macro, level, e) ==
    IF e.kind = "MacroReturn"
    THEN Return(e.msg)
    ELSE exception_handler(macro, level, e)

(* ------------------------------ TemplateCache ------------------------- *)

Key(node) == <<package_name(node), original_file_path(node)>>
Keys == {Key(n) : n \in Nodes}

NoTemplate == [id |-> 0, key |-> <<>>]
EmptyCache == [k \in Keys |-> NoTemplate]

\* key in self.file_cache
cache_has_never(cache, k) == FALSE
cache_has(cache, k) == cache[k] # NoTemplate

\* self.file_cache[key] = template
cache_store_only(cache, k, template) ==
    [kk \in Keys |-> IF kk = k THEN template ELSE NoTemplate]
cache_store(cache, k, template) == [cache EXCEPT ![k] = template]

\* get_template(string=node.raw_sql, ctx={}, node=node) raising: the
\* CompilationException of catch_jinja, which carries the node
template_error(node, level, chain) ==
    [Raise("CompilationException", "syntax", level, "get_template", chain)
        EXCEPT !.node = node]

\* get_node_template(node) run without interruption; made is what
\* get_template yields if it is called: a new template, or NoTemplate when
\* it raises
get_node_template_partial(cache, node, made) ==
    LET k == Key(node) IN
    IF cache_has(cache, k)
    THEN [file_cache |-> cache, template |-> cache[k], compiled |-> FALSE]
    ELSE IF made = NoTemplate
    THEN [file_cache |-> cache_store(cache, k, [id |-> 0, key |-> k]),
          template |-> NoTemplate, compiled |-> FALSE]
    ELSE [file_cache |-> cache_store(cache, k, made), template |-> made,
          compiled |-> TRUE]
get_node_template(cache, node, made) ==
    LET k == Key(node) IN
    IF cache_has(cache, k)
    THEN [file_cache |-> cache, template |-> cache[k], compiled |-> FALSE]
    ELSE IF made = NoTemplate
    THEN [file_cache |-> cache, template |-> NoTemplate, compiled |-> FALSE]
    ELSE [file_cache |-> cache_store(cache, k, made), template |-> made,
          compiled |-> TRUE]

(* --------------------------- create_undefined ------------------------- *)

\* names are sequences of characters
startswith(str, prefix) ==
    Len(str) >= Len(prefix) /\ SubSeq(str, 1, Len(prefix)) = prefix
endswith(str, suffix) ==
    Len(str) >= Len(suffix)
        /\ SubSeq(str, Len(str) - Len(suffix) + 1, Len(str)) = suffix

is_dunder_name(name) ==
    startswith(name, <<"_", "_">>) /\ endswith(name, <<"_", "_">>)

attr_name == <<"n", "a", "m", "e">>
attr_hint == <<"h", "i", "n", "t">>
attr_node == <<"n", "o", "d", "e">>
attr_unsafe_callable ==
    <<"u", "n", "s", "a", "f", "e", "_", "c", "a", "l", "l", "a", "b", "l", "e">>
attr_alters_data == <<"a", "l", "t", "e", "r", "s", "_", "d", "a", "t", "a">>

\* the attributes Undefined.__init__ sets on the instance
InstanceAttrs ==
    {attr_node, attr_name, attr_hint, attr_unsafe_callable, attr_alters_data}

\* the attribute names, index keys, first names and owning nodes of a chain
AttrNames ==
    InstanceAttrs \cup {<<"x">>, <<"y">>, <<"_", "_", "x", "_", "_">>,
                        <<"_", "_", "x">>}
ItemKeys == {<<"k">>, <<"x">>}
FirstNames == {<<"f", "o", "o">>}
OwningNodes == {None, "a"}

\* a Python object: an instance of the class create_undefined(node)
\* returns, or a plain value (value says which: "None", "False", "str"
\* with its characters in name, "node" with the node in node)
NoObject ==
    [kind |-> "none", node |-> None, name |-> <<>>, hint |-> None,
     unsafe_callable |-> FALSE, alters_data |-> FALSE, value |-> ""]

\* Undefined(hint=hint, name=name) of create_undefined(node)
Undefined(node, hint, name) ==
    [kind |-> "Undefined", node |-> node, name |-> name, hint |-> hint,
     unsafe_callable |-> FALSE, alters_data |-> FALSE, value |-> ""]

Plain(value, node, name) ==
    [NoObject EXCEPT !.kind = "value", !.value = value, !.node = node,
                     !.name = name]

\* the value of instance attribute a of self
instance_dict(self, a) ==
    IF a = attr_node
    THEN IF self.node = None THEN Plain("None", None, <<>>)
         ELSE Plain("node", self.node, <<>>)
    ELSE IF a = attr_name THEN Plain("str", None, self.name)
    ELSE IF a = attr_hint
    THEN IF self.hint = None THEN Plain("None", None, <<>>)
         ELSE Plain("str", None, <<self.hint>>)
    ELSE Plain("False", None, <<>>)

\* Undefined.__getitem__(self, name): self afterwards and the result
Undefined_getitem(self, name) ==
    [self |-> self, value |-> self, raised |-> NoOutcome]

\* Undefined.__getattr__(self, name), called when the normal lookup fails
Undefined_getattr(self, name) ==
    IF name = attr_name \/ is_dunder_name(name)
    THEN [self |-> self, value |-> NoObject,
          raised |-> Raise("AttributeError", name, 0, "getattr", <<>>)]
    ELSE LET renamed == [self EXCEPT !.name = name] IN
         [self |-> renamed,
          value |-> Undefined(self.node, renamed.hint, renamed.name),
          raised |-> NoOutcome]

\* getattr(self, name): the instance's attributes come first
getattr(self, name) ==
    IF name \in InstanceAttrs
    THEN [self |-> self, value |-> instance_dict(self, name),
          raised |-> NoOutcome]
    ELSE Undefined_getattr(self, name)

\* Undefined.__call__(self, *args, **kwargs)
Undefined_call(self) ==
    [self |-> self, value |-> self, raised |-> NoOutcome]

\* Undefined.__reduce__(self)
Undefined_reduce(self) ==
    [self |-> self, value |-> NoObject,
     raised |-> raise_compiler_error(self.name \o <<" is undefined">>,
                                     self.node, 0, <<>>)]

\* a chain: the object reached, the operations applied so far, the
\* exception that ended it, and the node given to create_undefined
NoChain ==
    [cur |-> NoObject, steps |-> <<>>, raised |-> NoOutcome, node |-> None]

(* ----------------------- MaterializationExtension -------------------- *)

\* a token of the lexer
Tok(type, value) == [type |-> type, value |-> value]
EOF == Tok("eof", "")

MaterializationNames == {"foo", "bar"}

\* what can be written after a comma in the tag
Modifiers ==
    {<<Tok("name", "default")>>,
     <<Tok("name", "adapter"), Tok("assign", "="), Tok("string", "a")>>,
     <<Tok("name", "adapter"), Tok("assign", "="), Tok("string", "b")>>,
     <<Tok("name", "adapter"), Tok("assign", "="), Tok("string", "default")>>,
     <<Tok("name", "adapter"), Tok("assign", "="), Tok("name", "a")>>,
     <<Tok("name", "adapter")>>,
     <<Tok("name", "default"), Tok("assign", "="), Tok("string", "a")>>,
     <<Tok("name", "bogus"), Tok("assign", "="), Tok("integer", "1")>>,
     <<Tok("name", "other")>>}

\* the tags: a materialization name, modifiers, and a body
Tags(n) ==
    {[name |-> name, mods |-> mods, body |-> "body"] :
        name \in MaterializationNames,
        mods \in UNION {[1..k -> Modifiers] : k \in 0..n}}

\* the tokens that follow the materialization name
RECURSIVE Flatten(_)
Flatten(mods) ==
    IF mods = <<>> THEN <<Tok("block_end", "%}")>>
    ELSE <<Tok("comma", ",")>> \o Head(mods) \o Flatten(Tail(mods))

\* parser.stream.current
current(stream, pos) == IF pos <= Len(stream) THEN stream[pos] ELSE EOF

TemplateSyntaxError(pos) ==
    Raise("TemplateSyntaxError", "syntax", pos, "parser", <<>>)

\* dbt.exceptions.invalid_materialization_argument(name, argument): a
\* compiler error that names both; pos is where the parser stood
invalid_materialization_argument(name, argument, pos) ==
    [raise_compiler_error(<<"materialization", name, "unknown argument",
                            argument>>, None, pos, <<>>)
        EXCEPT !.site = "parser"]

\* dbt.utils.get_materialization_macro_name(name, adapter_type)
get_materialization_macro_name(materialization_name, adapter_type) ==
    <<"materialization", materialization_name, adapter_type>>

\* the while loop of parse from position pos on: the adapter name it
\* ends with, the position it stops at, and what it raised
RECURSIVE parse_modifiers(_, _, _, _)
parse_modifiers(stream, pos, materialization_name, adapter_name) ==
    IF current(stream, pos).type # "comma"
    THEN [adapter_name |-> adapter_name, pos |-> pos, raised |-> NoOutcome]
    ELSE LET target == current(stream, pos + 1) IN
    IF target.type # "name"
    THEN [adapter_name |-> adapter_name, pos |-> pos + 1,
          raised |-> TemplateSyntaxError(pos + 1)]
    ELSE IF target.value = "default"
    THEN parse_modifiers(stream, pos + 2, materialization_name, adapter_name)
    ELSE IF target.value = "adapter"
    THEN IF current(stream, pos + 2).type # "assign"
         THEN [adapter_name |-> adapter_name, pos |-> pos + 2,
               raised |-> TemplateSyntaxError(pos + 2)]
         ELSE LET value == current(stream, pos + 3) IN
              IF value.type \in {"string", "integer"}
              THEN parse_modifiers(stream, pos + 4, materialization_name,
                                   value.value)
              ELSE IF value.type = "name"
              THEN [adapter_name |-> adapter_name, pos |-> pos + 4,
                    raised |-> Raise("AttributeError", "value", pos + 3,
                                     "parser", <<>>)]
              ELSE [adapter_name |-> adapter_name, pos |-> pos + 3,
                    raised |-> TemplateSyntaxError(pos + 3)]
    ELSE [adapter_name |-> adapter_name, pos |-> pos + 1,
          raised |-> invalid_materialization_argument(
                        materialization_name, target.value, pos + 1)]

\* a jinja2.nodes.Macro, and no node
NoMacroNode == [name |-> <<>>, args |-> <<>>, defaults |-> <<>>, body |-> ""]
Macro(name, body) == [NoMacroNode EXCEPT !.name = name, !.body = body]

\* MaterializationExtension.parse for a tag: the node it returns, or what
\* it raised
parse_default_name(tag) ==
    LET stream == Flatten(tag.mods)
        m == parse_modifiers(stream, 1, tag.name, "default")
    IN
    IF IsException(m.raised)
    THEN [node |-> NoMacroNode, raised |-> m.raised]
    ELSE IF current(stream, m.pos).type # "block_end"
    THEN [node |-> NoMacroNode, raised |-> TemplateSyntaxError(m.pos)]
    ELSE [node |-> Macro(get_materialization_macro_name(tag.name, "default"),
                         tag.body),
          raised |-> NoOutcome]
parse_unchecked(tag) ==
    LET stream == Flatten(tag.mods)
        m == parse_modifiers(stream, 1, tag.name, "default")
    IN
    IF m.raised.kind \in {"TemplateSyntaxError", "AttributeError"}
    THEN [node |-> NoMacroNode, raised |-> m.raised]
    ELSE [node |-> Macro(get_materialization_macro_name(tag.name,
                                                        m.adapter_name),
                         tag.body),
          raised |-> NoOutcome]
parse(tag) ==
    LET stream == Flatten(tag.mods)
        m == parse_modifiers(stream, 1, tag.name, "default")
    IN
    IF IsException(m.raised)
    THEN [node |-> NoMacroNode, raised |-> m.raised]
    ELSE IF current(stream, m.pos).type # "block_end"
    THEN [node |-> NoMacroNode, raised |-> TemplateSyntaxError(m.pos)]
    ELSE [node |-> Macro(get_materialization_macro_name(tag.name,
                                                        m.adapter_name),
                         tag.body),
          raised |-> NoOutcome]

\* the last tag parsed and the result
NoParse ==
    [tag |-> [name |-> "", mods |-> <<>>, body |-> ""],
     node |-> NoMacroNode, raised |-> NoOutcome]

(* ----------------------- add_rendered_test_kwargs -------------------- *)

SCHEMA_TEST_KWARGS_NAME == "_dbt_schema_test_kwargs"

\* a Python value: kind "str" (text holds its pieces: names, brackets,
\* blanks, literals), "int", "bool", "native" (what a call of a context
\* function evaluated to; text holds the function and its argument),
\* "list" (items), "dict" (keys and items side by side), and "raise" for
\* the exception a rendering ended with
Val(kind, text, keys, items) ==
    [kind |-> kind, text |-> text, keys |-> keys, items |-> items]
Str(text) == Val("str", text, <<>>, <<>>)
Integer(text) == Val("int", text, <<>>, <<>>)
List(items) == Val("list", <<>>, <<>>, items)
Dict(keys, items) == Val("dict", <<>>, keys, items)
Absent == Val("absent", <<>>, <<>>, <<>>)

\* the string values of test keyword arguments
Strings ==
    {<<"ref", "(", "'x'", ")">>,
     <<" ", "var", " ", "(", "'y'", ")", " ">>,
     <<"ref", "(", ")">>,
     <<"len", "(", "'x'", ")">>,
     <<"ref", "(", "(", ")">>,
     <<"hello">>,
     <<"1">>,
     <<"{{", " ", "var", "(", "'y'", ")", " ", "}}">>}

Leaves == {Str(t) : t \in Strings} \cup {Integer(<<"5">>), Val("bool", <<"True">>, <<>>, <<>>)}

\* second elements of the two-element lists
Seconds == {Str(<<"ref", "(", "'x'", ")">>), Integer(<<"5">>)}

\* the values nested at most n deep
RECURSIVE Vals(_)
Vals(n) ==
    IF n = 0 THEN Leaves
    ELSE Leaves
         \cup {List(<<v>>) : v \in Vals(n - 1)}
         \cup {List(<<v, w>>) : v \in Vals(n - 1), w \in Seconds}
         \cup {Dict(<<"k">>, <<v>>) : v \in Vals(n - 1)}

\* node.test_metadata.kwargs
Kwargs(n) ==
    {Dict(<<"a", "b">>, <<v, w>>) : v \in Vals(n), w \in Seconds}

FuncNames == {"env_var", "ref", "var", "source", "doc"}

\* the texts that are integer literals
Numerals == {"1", "5"}

\* the text without its blanks
strip(text) == SelectSeq(text, LAMBDA c : c # " ")

\* re.match(looks_like_func, value) is not None:
\* ^\s*(env_var|ref|var|source|doc)\s*\(.+\)\s*$
looks_like_func(text) ==
    \E i, j, k \in 1..Len(text) :
        /\ i < j /\ j + 1 < k
        /\ \A a \in 1..(i - 1) : text[a] = " "
        /\ text[i] \in FuncNames
        /\ \A a \in (i + 1)..(j - 1) : text[a] = " "
        /\ text[j] = "("
        /\ text[k] = ")"
        /\ \A a \in (k + 1)..Len(text) : text[a] = " "

\* f'{{{{ {value} }}}}'
wrap(text) == <<"{{", " ">> \o text \o <<" ", "}}">>

\* get_rendered(text, context, node, native=True): the text outside
\* {{ }} is kept and the result parsed as a literal where it is one; an
\* expression inside {{ }} is evaluated in the context, a call of a context
\* function to a native value; a malformed expression ends in the
\* CompilationException of catch_jinja
get_rendered(text, node) ==
    LET t == strip(text) IN
    IF Len(t) >= 2 /\ t[1] = "{{" /\ t[Len(t)] = "}}"
    THEN LET e == SubSeq(t, 2, Len(t) - 1) IN
         IF Len(e) = 4 /\ e[1] \in FuncNames /\ e[2] = "("
               /\ e[3] \notin {"(", ")"} /\ e[4] = ")"
         THEN Val("native", <<e[1], e[3]>>, <<>>, <<>>)
         ELSE Val("raise", <<"CompilationException">>, <<>>, <<>>)
    ELSE IF Len(t) = 1 /\ t[1] \in Numerals THEN Integer(t)
    ELSE Str(text)

\* _convert_function(value, keypath)
convert_function_calls_only(value, node) ==
    IF value.kind = "str" /\ looks_like_func(value.text)
    THEN get_rendered(wrap(value.text), node)
    ELSE value
convert_function(value, node) ==
    IF value.kind = "str"
    THEN IF looks_like_func(value.text)
         THEN get_rendered(wrap(value.text), node)
         ELSE get_rendered(value.text, node)
    ELSE value

\* dbt.utils.deep_map(_convert_function, value): a structure of the same
\* shape with the function applied to every value that is neither a
\* list nor a mapping; an exception of the function is kept in place of
\* the value and found by Failed
RECURSIVE deep_map(_, _)
deep_map(value, node) ==
    IF value.kind \in {"list", "dict"}
    THEN [value EXCEPT !.items =
            [i \in DOMAIN value.items |-> deep_map(value.items[i], node)]]
    ELSE convert_function(value, node)

RECURSIVE Failed(_)
Failed(value) ==
    \/ value.kind = "raise"
    \/ \E i \in DOMAIN value.items : Failed(value.items[i])

\* add_rendered_test_kwargs(context, node): the entry of the context under
\* SCHEMA_TEST_KWARGS_NAME afterwards, and what the call raised
add_rendered_test_kwargs(context, kwargs, node) ==
    LET mapped == deep_map(kwargs, node) IN
    IF Failed(mapped)
    THEN [context |-> context,
          raised |-> template_error(node, 0, <<>>)]
    ELSE [context |-> [context EXCEPT ![SCHEMA_TEST_KWARGS_NAME] = mapped],
          raised |-> NoOutcome]

\* a context without the entry
NoContext == [k \in {SCHEMA_TEST_KWARGS_NAME, "ref"} |-> Absent]

\* the last call: the kwargs given, the context afterwards, the exception
NoKwargsCall ==
    [kwargs |-> Absent, node |-> None, context |-> NoContext,
     raised |-> NoOutcome]

(* ------------------------------- state -------------------------------- *)

VARIABLES
    frames,      \* per thread: the MacroGenerator.__call__ activations, outermost first
    call_stack,  \* per thread slot: MacroStack.call_stack
    ret,         \* history, per thread: the invocation that has just finished
    file_cache,  \* template_cache.file_cache
    next_id,     \* identity of the next template object get_template creates
    gnt,         \* per thread: its get_node_template activation
    lastcall,    \* history: the get_node_template call that last answered a direct caller
    served,      \* history, per key: the first template returned since the last clear()
    written,     \* history, per key: the template stored last
    stored,      \* history: every template ever stored
    sres,        \* history: the last bare MacroStack.push / pop call
    und,         \* the chain of operations applied to an Undefined object
    mat,         \* the materialization tag parsed last and the result
    kw           \* the add_rendered_test_kwargs call made last and the result

engineVars == <<frames, call_stack, ret, file_cache, next_id,
                gnt, lastcall, served, written, stored, sres>>
auxVars == <<und, mat, kw>>
vars == <<engineVars, auxVars>>

macroVars == <<frames, call_stack, ret>>
cacheVars == <<file_cache, next_id, served, written, stored>>

NoRet ==
    [macro |-> None, context |-> FALSE, level |-> 0, tracked |-> FALSE,
     entry |-> 0, exit |-> 0,
     added |-> <<>>, raised |-> NoOutcome, out |-> NoOutcome, phases |-> <<>>]

IdleCall ==
    [pc |-> "idle", node |-> None, template |-> NoTemplate, first |-> FALSE]

NoCall ==
    [kind |-> "None", node |-> None, template |-> NoTemplate,
     compiled |-> FALSE, first |-> FALSE]

NoStackCall ==
    [op |-> "", thread |-> 0, name |-> None, before |-> <<>>,
     raised |-> NoOutcome]

Init ==
    /\ frames = [t \in Threads |-> <<>>]
    /\ call_stack = [t \in Threads |-> <<>>]
    /\ ret = [t \in Threads |-> NoRet]
    /\ file_cache = EmptyCache
    /\ next_id = 1
    /\ gnt = [t \in Threads |-> IdleCall]
    /\ lastcall = NoCall
    /\ served = EmptyCache
    /\ written = EmptyCache
    /\ stored = {}
    /\ sres = NoStackCall
    /\ und = NoChain
    /\ mat = NoParse
    /\ kw = NoKwargsCall

Top(t) == frames[t][Len(frames[t])]
Level(t) == Len(frames[t])
SetTop(t, f) == [frames EXCEPT ![t] = [@ EXCEPT ![Len(@)] = f]]
ChainOf(t) == [i \in 1..Len(frames[t]) |-> frames[t][i].macro]
ClearRet(t) == ret' = [ret EXCEPT ![t] = NoRet]
Running(t, pc) == frames[t] # <<>> /\ Top(t).pc = pc

(* ---------------------- MacroGenerator.__call__ ----------------------- *)

\* a MacroGenerator for macro m is called, from outside or by the body of the
\* macro running on top; c says which of its context, node, stack are set
Call(t, m, c, maxd) ==
    /\ gnt[t].pc = "idle"
    /\ IF frames[t] = <<>> THEN TRUE ELSE Top(t).pc = "body"
    /\ Len(frames[t]) < maxd
    /\ frames' = [frames EXCEPT ![t] = Append(@,
            [macro |-> m, context |-> c.context, node |-> c.node,
             stack |-> c.stack,
             pc |-> "track", entry |-> depth(call_stack[local(t)]),
             tracked |-> FALSE, added |-> <<>>, raised |-> NoOutcome,
             out |-> NoOutcome, phases |-> <<>>])]
    /\ ClearRet(t)
    /\ UNCHANGED <<call_stack, gnt, lastcall, sres>>
    /\ UNCHANGED cacheVars
    /\ UNCHANGED auxVars

\* track_call, up to the yield
Track(t) ==
    /\ Running(t, "track")
    /\ LET f == Top(t) IN
       IF ~f.stack \/ ~f.node
       THEN /\ frames' = SetTop(t, [f EXCEPT !.pc = "call"])
            /\ UNCHANGED call_stack
       ELSE LET x == track_call_enter(call_stack[local(t)], f.added,
                                      f.macro) IN
            /\ call_stack' = [call_stack EXCEPT ![local(t)] = x.call_stack]
            /\ frames' = SetTop(t, [f EXCEPT !.pc = "call", !.tracked = TRUE,
                                             !.added = x.added,
                                             !.phases = Append(@, "Track")])
    /\ ClearRet(t)
    /\ UNCHANGED <<gnt, lastcall, sres>>
    /\ UNCHANGED cacheVars
    /\ UNCHANGED auxVars

\* call_macro: the context check
CallMacroUnchecked(t) ==
    /\ Running(t, "call")
    /\ frames' = SetTop(t, [Top(t) EXCEPT !.pc = "resolve",
                                          !.phases = Append(@, "Resolve")])
    /\ ClearRet(t)
    /\ UNCHANGED <<call_stack, gnt, lastcall, sres>>
    /\ UNCHANGED cacheVars
    /\ UNCHANGED auxVars
CallMacro(t) ==
    /\ Running(t, "call")
    /\ LET f == Top(t) IN
       frames' = SetTop(t,
            IF ~f.context
            THEN [f EXCEPT !.pc = "unwind",
                    !.out = Raise("InternalException",
                                  "Context is still None in call_macro!",
                                  Level(t), "call_macro", ChainOf(t))]
            ELSE [f EXCEPT !.pc = "resolve",
                           !.phases = Append(@, "Resolve")])
    /\ ClearRet(t)
    /\ UNCHANGED <<call_stack, gnt, lastcall, sres>>
    /\ UNCHANGED cacheVars
    /\ UNCHANGED auxVars

\* the history of the cache after a get_node_template call for key k that
\* went from cache to g.file_cache and answered g.template
CacheHistory(k, g) ==
    /\ served' = IF g.template # NoTemplate /\ served[k] = NoTemplate
                 THEN [served EXCEPT ![k] = g.template]
                 ELSE served
    /\ written' = IF g.compiled THEN [written EXCEPT ![k] = g.template]
                  ELSE written
    /\ stored' = IF g.compiled THEN stored \cup {g.template} ELSE stored
    /\ next_id' = IF g.compiled THEN next_id + 1 ELSE next_id

\* get_macro: the template from the cache, make_module, and the lookup of
\* the macro's name in the module; found says whether these two succeed
GetMacro(t, compiles, found) ==
    /\ Running(t, "resolve")
    /\ compiles /\ ~cache_has(file_cache, Key(Top(t).macro))
          => next_id <= MaxCompiles
    /\ LET f == Top(t)
           made == IF compiles
                   THEN [id |-> next_id, key |-> Key(f.macro)]
                   ELSE NoTemplate
           g == get_node_template(file_cache, f.macro, made)
       IN
       /\ file_cache' = g.file_cache
       /\ CacheHistory(Key(f.macro), g)
       /\ frames' = SetTop(t,
            IF g.template = NoTemplate
            THEN [f EXCEPT !.pc = "unwind",
                    !.out = template_error(f.macro, Level(t), ChainOf(t))]
            ELSE IF found = "found"
            THEN [f EXCEPT !.pc = "body", !.phases = Append(@, "Invoke")]
            ELSE [f EXCEPT !.pc = "unwind",
                    !.out = Raise(found, "e1", Level(t), "get_macro",
                                  ChainOf(t))])
    /\ ClearRet(t)
    /\ UNCHANGED <<call_stack, gnt, lastcall, sres>>
    /\ UNCHANGED auxVars

\* the macro's body returns v
BodyReturn(t, v) ==
    /\ Running(t, "body")
    /\ gnt[t].pc = "idle"
    /\ frames' = SetTop(t, [Top(t) EXCEPT !.pc = "handler", !.raised = Return(v)])
    /\ ClearRet(t)
    /\ UNCHANGED <<call_stack, gnt, lastcall, sres>>
    /\ UNCHANGED cacheVars
    /\ UNCHANGED auxVars

\* the macro's body raises an exception of class kind
BodyRaise(t, kind, msg) ==
    /\ Running(t, "body")
    /\ gnt[t].pc = "idle"
    /\ frames' = SetTop(t, [Top(t) EXCEPT !.pc = "handler",
            !.raised = Raise(kind, msg, Level(t), "body", ChainOf(t))])
    /\ ClearRet(t)
    /\ UNCHANGED <<call_stack, gnt, lastcall, sres>>
    /\ UNCHANGED cacheVars
    /\ UNCHANGED auxVars

\* what the macro produced leaves call_macro: the except clause for
\* MacroReturn and exception_handler
Handler(t) ==
    /\ Running(t, "handler")
    /\ LET f == Top(t) IN
       frames' = SetTop(t, [f EXCEPT !.pc = "unwind",
                   !.out = invoke_outcome(f.macro, Level(t), f.raised)])
    /\ ClearRet(t)
    /\ UNCHANGED <<call_stack, gnt, lastcall, sres>>
    /\ UNCHANGED cacheVars
    /\ UNCHANGED auxVars

\* track_call after the yield, and the return to the caller: an exception
\* goes on inside the calling macro's body
Unwind(t) ==
    /\ Running(t, "unwind")
    /\ LET f == Top(t)
           cs == call_stack[local(t)]
           x == IF f.tracked
                THEN track_call_exit(cs, f.macro, f.out)
                ELSE [call_stack |-> cs, out |-> f.out]
           rest == SubSeq(frames[t], 1, Len(frames[t]) - 1)
       IN
       /\ call_stack' = [call_stack EXCEPT ![local(t)] = x.call_stack]
       /\ frames' = [frames EXCEPT ![t] =
                IF rest # <<>> /\ IsException(x.out)
                THEN [rest EXCEPT ![Len(rest)] =
                        [@ EXCEPT !.pc = "handler", !.raised = x.out]]
                ELSE rest]
       /\ ret' = [ret EXCEPT ![t] =
                [macro |-> f.macro, context |-> f.context, level |-> Level(t),
                 tracked |-> f.tracked,
                 entry |-> f.entry, exit |-> depth(x.call_stack),
                 added |-> f.added,
                 raised |-> f.raised, out |-> x.out,
                 phases |-> IF f.tracked THEN Append(f.phases, "Unwind")
                            ELSE f.phases]]
    /\ UNCHANGED <<gnt, lastcall, sres>>
    /\ UNCHANGED cacheVars
    /\ UNCHANGED auxVars

(* ------------------- TemplateCache.get_node_template ------------------ *)

\* get_node_template answers the thread that called it: template, or the
\* exception when template is NoTemplate
Deliver(t, template, compiled) ==
    LET c == gnt[t]
        k == Key(c.node) IN
    /\ gnt' = [gnt EXCEPT ![t] = IdleCall]
    /\ served' = IF template # NoTemplate /\ served[k] = NoTemplate
                 THEN [served EXCEPT ![k] = template]
                 ELSE served
    /\ lastcall' = [kind |-> IF template # NoTemplate THEN "Return" ELSE "Raise",
                    node |-> c.node, template |-> template,
                    compiled |-> compiled, first |-> c.first]

\* template_cache.get_node_template(node) is called by thread t
GetNodeTemplate(t, n) ==
    /\ frames[t] = <<>>
    /\ gnt[t].pc = "idle"
    /\ gnt' = [gnt EXCEPT ![t] =
                 [pc |-> "check", node |-> n, template |-> NoTemplate,
                  first |-> served[Key(n)] = NoTemplate]]
    /\ UNCHANGED <<lastcall, sres>>
    /\ UNCHANGED macroVars
    /\ UNCHANGED cacheVars
    /\ UNCHANGED auxVars

\* if key in self.file_cache
CacheCheck(t) ==
    /\ gnt[t].pc = "check"
    /\ gnt' = [gnt EXCEPT ![t].pc =
                 IF cache_has(file_cache, Key(gnt[t].node))
                 THEN "read" ELSE "compile"]
    /\ UNCHANGED <<lastcall, sres>>
    /\ UNCHANGED macroVars
    /\ UNCHANGED cacheVars
    /\ UNCHANGED auxVars

\* return self.file_cache[key]: a KeyError if the entry is gone
CacheRead(t) ==
    /\ gnt[t].pc = "read"
    /\ Deliver(t, file_cache[Key(gnt[t].node)], FALSE)
    /\ UNCHANGED sres
    /\ UNCHANGED macroVars
    /\ UNCHANGED <<file_cache, next_id, written, stored>>
    /\ UNCHANGED auxVars

\* template = get_template(string=node.raw_sql, ctx={}, node=node): a new
\* template object, or the CompilationException of catch_jinja
CacheCompile(t) ==
    /\ gnt[t].pc = "compile"
    /\ \/ /\ next_id <= MaxCompiles
          /\ gnt' = [gnt EXCEPT ![t].pc = "store",
                        ![t].template = [id |-> next_id, key |-> Key(gnt[t].node)]]
          /\ next_id' = next_id + 1
          /\ UNCHANGED <<lastcall, served>>
       \/ /\ Deliver(t, NoTemplate, FALSE)
          /\ UNCHANGED next_id
    /\ UNCHANGED sres
    /\ UNCHANGED macroVars
    /\ UNCHANGED <<file_cache, written, stored>>
    /\ UNCHANGED auxVars

\* self.file_cache[key] = template; return template
CacheStore(t) ==
    /\ gnt[t].pc = "store"
    /\ LET k == Key(gnt[t].node)
           template == gnt[t].template IN
       /\ file_cache' = cache_store(file_cache, k, template)
       /\ written' = [written EXCEPT ![k] = template]
       /\ stored' = stored \cup {template}
       /\ Deliver(t, template, TRUE)
    /\ UNCHANGED sres
    /\ UNCHANGED macroVars
    /\ UNCHANGED next_id
    /\ UNCHANGED auxVars

\* template_cache.get_node_template(node) called by thread t and run to its
\* end; compiles says whether get_template succeeds if it is called
CallGetNodeTemplate(t, n, compiles) ==
    /\ frames[t] = <<>>
    /\ gnt[t].pc = "idle"
    /\ compiles /\ ~cache_has(file_cache, Key(n)) => next_id <= MaxCompiles
    /\ LET made == IF compiles THEN [id |-> next_id, key |-> Key(n)]
                   ELSE NoTemplate
           g == get_node_template(file_cache, n, made)
       IN
       /\ file_cache' = g.file_cache
       /\ CacheHistory(Key(n), g)
       /\ lastcall' = [kind |-> IF g.template # NoTemplate THEN "Return"
                                ELSE "Raise",
                       node |-> n, template |-> g.template,
                       compiled |-> g.compiled,
                       first |-> served[Key(n)] = NoTemplate]
    /\ UNCHANGED <<gnt, sres>>
    /\ UNCHANGED macroVars
    /\ UNCHANGED auxVars

\* template_cache.clear()
Clear ==
    /\ file_cache' = EmptyCache
    /\ served' = EmptyCache
    /\ written' = EmptyCache
    /\ lastcall' = NoCall
    /\ UNCHANGED <<next_id, stored, gnt, sres>>
    /\ UNCHANGED macroVars
    /\ UNCHANGED auxVars

(* ---------------------- MacroStack.push and pop ----------------------- *)

\* stack.push(name) called directly by thread t
StackPush(t, name) ==
    /\ Len(call_stack[local(t)]) < MaxStack
    /\ call_stack' = [call_stack EXCEPT ![local(t)] = push(@, name)]
    /\ sres' = [op |-> "push", thread |-> t, name |-> name,
                before |-> call_stack[local(t)], raised |-> NoOutcome]
    /\ UNCHANGED <<frames, ret, gnt, lastcall>>
    /\ UNCHANGED cacheVars
    /\ UNCHANGED auxVars

\* stack.pop(name) called directly by thread t
StackPop(t, name) ==
    /\ LET p == pop(call_stack[local(t)], name) IN
       /\ call_stack' = [call_stack EXCEPT ![local(t)] = p.call_stack]
       /\ sres' = [op |-> "pop", thread |-> t, name |-> name,
                   before |-> call_stack[local(t)], raised |-> p.raised]
    /\ UNCHANGED <<frames, ret, gnt, lastcall>>
    /\ UNCHANGED cacheVars
    /\ UNCHANGED auxVars

(* ------------------------ operations on Undefined --------------------- *)

\* the chain goes on with result x of operation op with argument arg
ChainStep(op, arg, x) ==
    /\ und' = [und EXCEPT !.cur = x.value, !.raised = x.raised,
                          !.steps = Append(@, <<op, arg>>)]
    /\ UNCHANGED engineVars
    /\ UNCHANGED <<mat, kw>>

ChainOpen ==
    /\ und.cur.kind = "Undefined"
    /\ Len(und.steps) < MaxChain

\* create_undefined(node), and the lookup of a missing name by the
\* environment: undefined(name=name)
UndefCreate(node, name) ==
    /\ und = NoChain
    /\ und' = [NoChain EXCEPT !.cur = Undefined(node, None, name),
                              !.node = node]
    /\ UNCHANGED engineVars
    /\ UNCHANGED <<mat, kw>>

\* obj.name
UndefGetAttr(name) ==
    /\ ChainOpen
    /\ ChainStep("attr", name, getattr(und.cur, name))

\* obj[name]
UndefGetItem(name) ==
    /\ ChainOpen
    /\ ChainStep("item", name, Undefined_getitem(und.cur, name))

\* obj(...)
UndefCall ==
    /\ ChainOpen
    /\ ChainStep("call", <<>>, Undefined_call(und.cur))

\* obj.__reduce__()
UndefReduce ==
    /\ ChainOpen
    /\ ChainStep("reduce", <<>>, Undefined_reduce(und.cur))

(* ------------------- MaterializationExtension.parse ------------------- *)

\* the parser meets the materialization tag
ParseTag(tag) ==
    /\ mat = NoParse
    /\ LET r == parse(tag) IN
       mat' = [tag |-> tag, node |-> r.node, raised |-> r.raised]
    /\ UNCHANGED engineVars
    /\ UNCHANGED <<und, kw>>

(* ----------------------- add_rendered_test_kwargs -------------------- *)

\* add_rendered_test_kwargs(context, node) for a test node with the given
\* kwargs
AddRenderedTestKwargs(kwargs, node) ==
    /\ kw = NoKwargsCall
    /\ LET r == add_rendered_test_kwargs(NoContext, kwargs, node) IN
       kw' = [kwargs |-> kwargs, node |-> node, context |-> r.context,
              raised |-> r.raised]
    /\ UNCHANGED engineVars
    /\ UNCHANGED <<und, mat>>

(* --------------------------- specifications --------------------------- *)

\* what make_module and the lookup of the macro's name do in get_macro
Lookups == {"found", "KeyError", "TypeError"}

\* one thread: nested macro invocations with every outcome
Next ==
    \E t \in {MainThread} :
        \/ \E m \in Macros, c \in Configs : Call(t, m, c, MaxDepth)
        \/ Track(t)
        \/ CallMacro(t)
        \/ \E compiles \in BOOLEAN, found \in Lookups :
              GetMacro(t, compiles, found)
        \/ \E v \in Values : BodyReturn(t, v)
        \/ \E e \in BodyRaises : BodyRaise(t, e[1], e[2])
        \/ Handler(t)
        \/ Unwind(t)

Spec == Init /\ [][Next]_vars

\* several threads, each running nested invocations of generators that
\* share one MacroStack object and one TemplateCache
TrackedConfig == [context |-> TRUE, node |-> TRUE, stack |-> TRUE]

NextThreads ==
    \E t \in Threads :
        \/ \E m \in ThreadMacros : Call(t, m, TrackedConfig, ThreadDepth)
        \/ Track(t)
        \/ CallMacro(t)
        \/ GetMacro(t, TRUE, "found")
        \/ BodyReturn(t, "v1")
        \/ BodyRaise(t, "TypeError", "e1")
        \/ Handler(t)
        \/ Unwind(t)

SpecThreads == Init /\ [][NextThreads]_vars

\* get_node_template and clear called one after another
NextCacheSeq ==
    \/ \E t \in Threads, n \in Nodes, compiles \in BOOLEAN :
          CallGetNodeTemplate(t, n, compiles)
    \/ Clear

SpecCacheSeq == Init /\ [][NextCacheSeq]_vars

\* threads inside get_node_template at the same time
NextCache ==
    \E t \in Threads :
        \/ \E n \in Macros : GetNodeTemplate(t, n)
        \/ CacheCheck(t)
        \/ CacheRead(t)
        \/ CacheCompile(t)
        \/ CacheStore(t)

SpecCache == Init /\ [][NextCache]_vars

\* threads calling push and pop of one MacroStack object
NextStack ==
    \E t \in Threads, name \in Macros :
        \/ StackPush(t, name)
        \/ StackPop(t, name)

SpecStack == Init /\ [][NextStack]_vars

\* chains of operations on an Undefined object
NextUndefined ==
    \/ \E node \in OwningNodes, name \in FirstNames : UndefCreate(node, name)
    \/ \E name \in AttrNames : UndefGetAttr(name)
    \/ \E name \in ItemKeys : UndefGetItem(name)
    \/ UndefCall
    \/ UndefReduce

SpecUndefined == Init /\ [][NextUndefined]_vars

\* a materialization tag is parsed
NextMaterialization == \E tag \in Tags(MaxModifiers) : ParseTag(tag)

SpecMaterialization == Init /\ [][NextMaterialization]_vars

\* add_rendered_test_kwargs is called for a test node
NextKwargs ==
    \E kwargs \in Kwargs(MaxNesting), node \in Macros :
        AddRenderedTestKwargs(kwargs, node)

SpecKwargs == Init /\ [][NextKwargs]_vars

(* --------------------------- helper operators ------------------------- *)

Has(seq, x) == \E i \in DOMAIN seq : seq[i] = x
IsPrefix(p, q) == Len(p) <= Len(q) /\ \A i \in DOMAIN p : p[i] = q[i]
Finished(t) == ret[t].macro # None
Translatable == {"TypeError", "TemplateRuntimeError"}
\* the macros of levels hi, hi - 1, ..., lo of a chain, innermost first
Enclosing(chain, lo, hi) ==
    [i \in 1..(IF hi >= lo THEN hi - lo + 1 ELSE 0) |-> chain[hi + 1 - i]]

(* ------------------------------- claims ------------------------------- *)

\* C1: an invocation made with a stack and a node leaves the depth of the
\* thread's MacroStack as it found it, whatever its outcome (return,
\* MacroReturn, translated error, any exception of resolution or body).
C1_Balanced ==
    \A t \in Threads :
        Finished(t) /\ ret[t].tracked => ret[t].exit = ret[t].entry

\* a nested tracked invocation ended by an exception, the stack not empty
C1_Witness ==
    \E t \in Threads :
        /\ Finished(t) /\ ret[t].tracked
        /\ ret[t].level = 2 /\ ret[t].entry = 1
        /\ IsException(ret[t].out)

\* the invocations below level i of thread t all have a stack and a node
ChainTracked(t, i) ==
    \A j \in 1..(i - 1) : frames[t][j].stack /\ frames[t][j].node

\* C2: in a chain of nested tracked invocations add_macro is called exactly
\* once, by the outermost one with its own unique_id; an invocation that
\* starts at depth >= 1 never calls it.
C2_OnlyOutermostRegisters ==
    \A t \in Threads :
        /\ \A i \in 1..Len(frames[t]) :
             LET f == frames[t][i] IN
             /\ f.entry >= 1 => f.added = <<>>
             /\ f.tracked /\ ChainTracked(t, i)
                  => f.added = IF i = 1 THEN <<f.macro>> ELSE <<>>
        /\ Finished(t) =>
             /\ ret[t].entry >= 1 => ret[t].added = <<>>
             /\ ret[t].tracked /\ ChainTracked(t, ret[t].level)
                  => ret[t].added =
                        IF ret[t].level = 1 THEN <<ret[t].macro>> ELSE <<>>

\* a chain of three tracked invocations, the innermost past track_call
C2_Witness ==
    \E t \in Threads :
        /\ Len(frames[t]) = 3
        /\ \A i \in 1..3 : frames[t][i].tracked
        /\ frames[t][1].added = <<frames[t][1].macro>>
        /\ frames[t][3].added = <<>>

\* C3, as stated: the callable is resolved before anything is registered or
\* pushed, so an invocation that never obtained its callable (resolution
\* failed, or the context is None) has registered and pushed nothing.
C3_ResolveBeforeTrack ==
    \A t \in Threads :
        Finished(t) /\ ~Has(ret[t].phases, "Invoke")
            => ret[t].added = <<>> /\ ~Has(ret[t].phases, "Track")

TrackedOrders ==
    {<<"Track", "Resolve", "Invoke", "Unwind">>,
     <<"Track", "Resolve", "Unwind">>,
     <<"Track", "Unwind">>}

\* C3, amended: a tracked invocation goes Track, Resolve, Invoke, Unwind.
\* The identity is pushed (and at depth 0 the edge registered) before the
\* callable is resolved; an invocation whose resolution fails or whose
\* context is None has pushed, has registered iff it started at depth 0,
\* and is popped by Unwind.
C3_TrackBeforeResolve ==
    \A t \in Threads :
        /\ \A i \in 1..Len(frames[t]) :
             LET f == frames[t][i] IN
             f.stack /\ f.node /\ f.pc # "track" =>
                /\ \E o \in TrackedOrders : IsPrefix(f.phases, o)
                /\ f.phases[1] = "Track"
                /\ call_stack[local(t)][f.entry + 1] = f.macro
        /\ Finished(t) /\ ret[t].tracked =>
             /\ ret[t].phases \in TrackedOrders
             /\ ~Has(ret[t].phases, "Invoke") =>
                   /\ ret[t].added = IF ret[t].entry = 0
                                     THEN <<ret[t].macro>> ELSE <<>>
                   /\ ret[t].exit = ret[t].entry

\* an outermost tracked invocation whose resolution failed
C3_Witness ==
    \E t \in Threads :
        /\ Finished(t) /\ ret[t].tracked
        /\ ret[t].phases = <<"Track", "Resolve", "Unwind">>
        /\ ret[t].entry = 0
        /\ ret[t].added = <<ret[t].macro>>

\* C9: a TypeError or TemplateRuntimeError raised by the body of macro M
\* leaves M's invocation as a CompilationException with the same message,
\* attributed to M.
C9_Translated ==
    \A t \in Threads :
        Finished(t) /\ ret[t].raised.kind \in Translatable =>
            /\ ret[t].out.kind = "CompilationException"
            /\ ret[t].out.msg = ret[t].raised.msg
            /\ ret[t].out.node = ret[t].macro

\* a nested invocation whose body raised a TemplateRuntimeError
C9_Witness ==
    \E t \in Threads :
        /\ Finished(t) /\ ret[t].level = 2
        /\ ret[t].raised.kind = "TemplateRuntimeError"
        /\ ret[t].out.kind = "CompilationException"

\* C10: the CompilationException created for the innermost macro MD of a
\* chain is the exception that leaves every enclosing invocation, and when
\* it leaves level k its chain holds M(D-1), ..., Mk, each once, innermost
\* first; MD itself is not in it.
C10_AttributionChain ==
    \A t \in Threads :
        Finished(t) =>
          LET r == ret[t] IN
          /\ r.raised.kind = "CompilationException" /\ r.raised.site = "handler"
               => /\ r.out.kind = "CompilationException"
                  /\ r.out.site = "handler"
                  /\ r.out.level = r.raised.level
                  /\ r.out.msg = r.raised.msg
                  /\ r.out.node = r.raised.node
                  /\ r.out.chain = r.raised.chain
          /\ r.out.kind = "CompilationException" /\ r.out.site = "handler"
               => /\ r.out.node = r.out.chain[r.out.level]
                  /\ r.out.stack = Enclosing(r.out.chain, r.level, r.out.level - 1)

\* the error of the third macro of a chain a, c, a leaves the outermost one
C10_Witness ==
    \E t \in Threads :
        /\ Finished(t) /\ ret[t].level = 1
        /\ ret[t].out.kind = "CompilationException"
        /\ ret[t].out.site = "handler" /\ ret[t].out.level = 3
        /\ ret[t].out.chain = <<"a", "c", "a">>
        /\ ret[t].out.stack = <<"c", "a">>

\* C4: pop(name) on a non-empty stack removes exactly the last entry and
\* keeps the earlier ones; it returns normally iff that entry equals name,
\* and otherwise raises InternalException naming the popped and the
\* expected identity.
C4_PopRemovesLast ==
    sres.op = "pop" /\ sres.before # <<>> =>
        LET n == Len(sres.before)
            got == sres.before[n] IN
        /\ call_stack[local(sres.thread)] = SubSeq(sres.before, 1, n - 1)
        /\ sres.raised.kind = "None" <=> got = sres.name
        /\ got # sres.name =>
              /\ sres.raised.kind = "InternalException"
              /\ sres.raised.msg = "popped " \o got \o ", expected " \o sres.name

\* a pop of "a" from a stack of two entries ending in "c"
C4_Witness ==
    /\ sres.op = "pop" /\ sres.name = "a"
    /\ sres.before = <<"a", "c">>
    /\ sres.raised.kind = "InternalException"
    /\ call_stack[local(sres.thread)] = <<"a">>

\* C5: a pop on an empty stack is reported as InternalException, like a
\* mismatch on a non-empty one.
C5_EmptyPopIsInternal ==
    sres.op = "pop" /\ sres.before = <<>>
        => sres.raised.kind = "InternalException"

\* the identities of the invocations of thread t that have pushed and not
\* yet popped, outermost first
InFlight(t) ==
    LET pushed == SelectSeq(frames[t], LAMBDA f : f.tracked) IN
    [i \in 1..Len(pushed) |-> pushed[i].macro]

\* C6: whatever the other threads do, the MacroStack a thread sees holds
\* the identities of its own in-flight invocations and nothing else; so its
\* outermost invocation starts at depth 0 and registers its edge, and its
\* pop always removes the identity it pushed itself.
C6_ThreadLocal ==
    \A t \in Threads :
        /\ call_stack[local(t)] = InFlight(t)
        /\ frames[t] # <<>> /\ frames[t][1].tracked =>
              /\ frames[t][1].entry = 0
              /\ frames[t][1].added = <<frames[t][1].macro>>
        /\ Finished(t) /\ ret[t].tracked =>
              /\ ret[t].out.site # "pop"
              /\ ret[t].level = 1 => ret[t].added = <<ret[t].macro>>

\* two threads in flight at once, each with its own identity on its stack
C6_Witness ==
    \E t, u \in Threads :
        /\ t # u
        /\ call_stack[local(t)] = <<"a">> /\ call_stack[local(u)] = <<"b">>
        /\ frames[t][1].added = <<"a">> /\ frames[u][1].added = <<"b">>
        /\ frames[t][1].pc = "body" /\ frames[u][1].pc = "body"

\* C7: between two clear() calls every get_node_template call for a key
\* returns the same template object, the one in the cache, and only the
\* first call that returns compiles; the first call after a clear()
\* compiles again.
C7_SameInstance ==
    lastcall.kind = "Return" =>
        LET k == Key(lastcall.node) IN
        /\ lastcall.template = served[k]
        /\ lastcall.template = file_cache[k]
        /\ lastcall.compiled <=> lastcall.first

\* after a clear(), a hit for node "b" on the template compiled for "a"
C7_Witness ==
    /\ lastcall.kind = "Return" /\ lastcall.node = "b"
    /\ ~lastcall.compiled
    /\ lastcall.template = [id |-> 2, key |-> Key("a")]
    /\ [id |-> 1, key |-> Key("a")] \in stored

AllIdle == \A t \in Threads : gnt[t].pc = "idle"

\* C8: under any interleaving of get_node_template calls every call that
\* returns yields a complete template for its key that has been stored (its
\* own or another call's); every key maps to the template written last for
\* it, also when all calls are done; a store changes no other key.
C8_LastWriterWins ==
    /\ lastcall.kind = "Return" =>
          /\ lastcall.template # NoTemplate
          /\ lastcall.template.key = Key(lastcall.node)
          /\ lastcall.template.id \in 1..(next_id - 1)
          /\ lastcall.template \in stored
    /\ \A k \in Keys :
          /\ file_cache[k] = written[k]
          /\ file_cache[k] # NoTemplate => file_cache[k].key = k
    /\ AllIdle =>
          \A tp \in stored : file_cache[tp.key] # NoTemplate

\* two threads compiled the same key; the second template has replaced the
\* first, and another key has its own entry
C8_Witness ==
    /\ AllIdle
    /\ stored = {[id |-> 1, key |-> Key("c")], [id |-> 2, key |-> Key("a")],
                 [id |-> 3, key |-> Key("a")]}
    /\ file_cache[Key("a")].id = 3
    /\ file_cache[Key("c")].id = 1
    /\ lastcall.kind = "Return" /\ lastcall.node = "a"
    /\ lastcall.template = file_cache[Key("a")]

\* C11: a MacroReturn carrying v raised by the body of macro M is caught by
\* M's own invocation: the invocation returns v normally, nothing is added
\* to an attribution chain, no invocation ever ends with MacroReturn or
\* receives one from an invocation it made, and the calling macro's body
\* goes on.
C11_EarlyReturnCaught ==
    \A t \in Threads :
        /\ \A i \in 1..Len(frames[t]) :
             LET f == frames[t][i] IN
             /\ f.out.kind # "MacroReturn"
             /\ f.raised.kind = "MacroReturn" =>
                   f.raised.level = i /\ f.raised.site = "body"
        /\ Finished(t) =>
             /\ ret[t].out.kind # "MacroReturn"
             /\ ret[t].raised.kind = "MacroReturn" =>
                   /\ ret[t].out = Return(ret[t].raised.msg)
                   /\ ret[t].raised.level = ret[t].level
                   /\ Len(frames[t]) = ret[t].level - 1
                   /\ ret[t].level >= 2 =>
                         /\ Top(t).pc = "body"
                         /\ Top(t).raised = NoOutcome

\* the third macro of a chain has returned early with v2, the second goes on
C11_Witness ==
    \E t \in Threads :
        /\ Finished(t) /\ ret[t].level = 3
        /\ ret[t].raised.kind = "MacroReturn"
        /\ ret[t].out = Return("v2")
        /\ Len(frames[t]) = 2 /\ Top(t).pc = "body"

\* C12: an invocation of a generator whose context is None ends with the
\* InternalException of call_macro, never with a CompilationException or a
\* normal return, and never reaches the resolution of the macro or its body.
C12_NoContextIsInternal ==
    \A t \in Threads :
        /\ \A i \in 1..Len(frames[t]) :
             LET f == frames[t][i] IN
             ~f.context =>
                /\ f.pc \in {"track", "call", "unwind"}
                /\ ~Has(f.phases, "Resolve") /\ ~Has(f.phases, "Invoke")
                /\ f.raised = NoOutcome
        /\ Finished(t) /\ ~ret[t].context =>
             /\ ret[t].out.kind = "InternalException"
             /\ ret[t].out.msg = "Context is still None in call_macro!"
             /\ ret[t].out.site = "call_macro"
             /\ ~Has(ret[t].phases, "Resolve")
             /\ ~Has(ret[t].phases, "Invoke")
             /\ ret[t].raised = NoOutcome

\* a nested tracked invocation without a context has ended
C12_Witness ==
    \E t \in Threads :
        /\ Finished(t) /\ ~ret[t].context
        /\ ret[t].level = 2 /\ ret[t].tracked
        /\ ret[t].out.kind = "InternalException"

\* a step the chain is allowed to make: an index access, a call, or an
\* access of an attribute other than name and the double-underscore names
Deferring(step) ==
    \/ step[1] \in {"item", "call"}
    \/ step[1] = "attr" /\ step[2] # attr_name /\ ~is_dunder_name(step[2])

\* C13: a chain of attribute accesses (other than name and double-
\* underscore names), index accesses and calls on an Undefined object
\* yields an Undefined object at every step and never raises, and
\* __reduce__ of the object reached raises a CompilationException for the
\* owning node.
C13_ChainDefers ==
    LET n == Len(und.steps)
        reduced == n >= 1 /\ und.steps[n][1] = "reduce"
        m == IF reduced THEN n - 1 ELSE n
    IN
    und # NoChain /\ (\A i \in 1..m : Deferring(und.steps[i])) =>
        IF reduced
        THEN /\ und.raised.kind = "CompilationException"
             /\ und.raised.node = und.node
             /\ und.cur = NoObject
        ELSE /\ und.cur.kind = "Undefined"
             /\ und.raised = NoOutcome

\* C14: after a chain of attribute and index accesses the Undefined object
\* reached carries the name accessed last, and __reduce__ reports that
\* name as undefined.
C14_CarriesLastName ==
    LET n == Len(und.steps)
        reduced == n >= 1 /\ und.steps[n][1] = "reduce"
        m == IF reduced THEN n - 1 ELSE n
    IN
    /\ m >= 1
    /\ \A i \in 1..m : und.steps[i][1] \in {"attr", "item"}
    /\ IF reduced THEN und.raised.kind = "CompilationException"
       ELSE und.cur.kind = "Undefined"
    => IF reduced
       THEN und.raised.msg = und.steps[m][2] \o <<" is undefined">>
       ELSE und.cur.name = und.steps[m][2]

\* the name a modifier starts with, and the modifiers the grammar allows
ModifierName(mod) == mod[1].value
IsDefault(mod) == mod = <<Tok("name", "default")>>
IsAdapter(mod) ==
    /\ Len(mod) = 3
    /\ mod[1] = Tok("name", "adapter") /\ mod[2] = Tok("assign", "=")
    /\ mod[3].type \in {"string", "integer"}
Unknown(mods) ==
    {i \in DOMAIN mods : ModifierName(mods[i]) \notin {"default", "adapter"}}
FirstUnknown(mods) ==
    CHOOSE i \in Unknown(mods) : \A j \in Unknown(mods) : i <= j
\* the position of the name of modifier i among the tokens of the tag
NamePos(mods, i) == Len(Flatten(SubSeq(mods, 1, i - 1))) + 1
Parsed == mat # NoParse

\* C15: a tag with a modifier named neither default nor adapter is rejected
\* and yields no macro node; when the modifiers before the first such one
\* are well-formed, the error is the compiler error raised at that
\* modifier, naming the materialization and the modifier.
C15_UnknownModifierRejected ==
    LET mods == mat.tag.mods IN
    Parsed /\ Unknown(mods) # {} =>
        /\ IsException(mat.raised)
        /\ mat.node = NoMacroNode
        /\ LET u == FirstUnknown(mods) IN
           (\A j \in 1..(u - 1) : IsDefault(mods[j]) \/ IsAdapter(mods[j])) =>
              /\ mat.raised.kind = "CompilationException"
              /\ mat.raised.msg = <<"materialization", mat.tag.name,
                                    "unknown argument", ModifierName(mods[u])>>
              /\ mat.raised.level = NamePos(mods, u)

\* the tag "foo, adapter='a', bogus=1" has been rejected naming bogus
C15_Witness ==
    /\ Parsed /\ mat.tag.name = "foo"
    /\ Len(mat.tag.mods) = 2
    /\ IsAdapter(mat.tag.mods[1])
    /\ ModifierName(mat.tag.mods[2]) = "bogus"
    /\ mat.raised.msg = <<"materialization", "foo", "unknown argument", "bogus">>
    /\ mat.raised.level = 6
    /\ mat.node = NoMacroNode

\* C16: a tag that writes default twice, or adapter=<literal> twice, is
\* not accepted.
C16_NoRepeatedModifier ==
    LET mods == mat.tag.mods IN
    /\ Parsed
    /\ \E i, j \in DOMAIN mods :
          /\ i # j
          /\ \/ IsDefault(mods[i]) /\ IsDefault(mods[j])
             \/ IsAdapter(mods[i]) /\ IsAdapter(mods[j])
    => IsException(mat.raised) /\ mat.node = NoMacroNode

\* C17: a tag whose modifiers are none or only default yields a macro
\* without parameters named by the mangling of (n, "default"); a tag with
\* adapter=a (with or without default) yields the mangling of (n, a), which
\* for a other than "default" differs from the name the tag without
\* modifiers gets, so a module can hold both.
C17_MangledNames ==
    LET mods == mat.tag.mods
        adapters == {i \in DOMAIN mods : IsAdapter(mods[i])}
        plain == parse([mat.tag EXCEPT !.mods = <<>>])
    IN
    Parsed /\ (\A i \in DOMAIN mods : IsDefault(mods[i]) \/ IsAdapter(mods[i]))
           /\ Cardinality(adapters) <= 1 =>
        /\ mat.raised = NoOutcome
        /\ mat.node.args = <<>> /\ mat.node.defaults = <<>>
        /\ mat.node.body = mat.tag.body
        /\ adapters = {} =>
              mat.node.name =
                 get_materialization_macro_name(mat.tag.name, "default")
        /\ \A i \in adapters :
              /\ mat.node.name =
                    get_materialization_macro_name(mat.tag.name,
                                                   mods[i][3].value)
              /\ mods[i][3].value # "default" =>
                    /\ plain.raised = NoOutcome
                    /\ mat.node.name # plain.node.name

\* the tag "foo, default, adapter='a'" has produced its macro
C17_Witness ==
    /\ Parsed /\ mat.tag.name = "foo"
    /\ Len(mat.tag.mods) = 2
    /\ IsDefault(mat.tag.mods[1])
    /\ IsAdapter(mat.tag.mods[2])
    /\ mat.tag.mods[2][3] = Tok("string", "a")
    /\ mat.node.name = <<"materialization", "foo", "a">>
    /\ mat.raised = NoOutcome

\* out is what given stands for after the call: same shape, values that
\* are not strings as they were, call-shaped strings rendered natively
\* inside {{ }}; the other strings rendered natively as they stand if
\* every is set, and as they were if not
RECURSIVE Converted(_, _, _, _)
Converted(given, out, node, every) ==
    IF given.kind \in {"list", "dict"}
    THEN /\ out.kind = given.kind
         /\ out.keys = given.keys
         /\ Len(out.items) = Len(given.items)
         /\ \A i \in DOMAIN given.items :
               Converted(given.items[i], out.items[i], node, every)
    ELSE IF given.kind # "str" THEN out = given
    ELSE IF looks_like_func(given.text)
    THEN out = get_rendered(wrap(given.text), node)
    ELSE IF every THEN out = get_rendered(given.text, node)
    ELSE out = given

Called == kw # NoKwargsCall

\* C18, as stated: the entry has the shape of the kwargs; values that are
\* not strings and strings that are not call-shaped are unchanged, and
\* only call-shaped strings are replaced by their native rendering.
C18_OnlyCallShapedRendered ==
    Called /\ kw.raised = NoOutcome =>
        Converted(kw.kwargs, kw.context[SCHEMA_TEST_KWARGS_NAME], kw.node,
                  FALSE)

\* C18, amended: the entry has the shape of the kwargs; values that are
\* not strings are unchanged, and every string is replaced by its native
\* rendering, a call-shaped one rendered inside {{ }} and any other one as
\* it stands.  A call whose rendering raises leaves the context alone.
C18_EveryStringRendered ==
    Called =>
        /\ kw.raised = NoOutcome =>
              Converted(kw.kwargs, kw.context[SCHEMA_TEST_KWARGS_NAME],
                        kw.node, TRUE)
        /\ IsException(kw.raised) => kw.context = NoContext

\* {"a": ["1", 5], "b": "ref('x')"} has become {"a": [1, 5], "b": <native>}
C18_Witness ==
    /\ Called
    /\ kw.kwargs = Dict(<<"a", "b">>,
                        <<List(<<Str(<<"1">>), Integer(<<"5">>)>>),
                          Str(<<"ref", "(", "'x'", ")">>)>>)
    /\ kw.context[SCHEMA_TEST_KWARGS_NAME] =
          Dict(<<"a", "b">>,
               <<List(<<Integer(<<"1">>), Integer(<<"5">>)>>),
                 Val("native", <<"ref", "'x'">>, <<>>, <<>>)>>)

\* C19: a get_node_template call whose get_template raises ends with that
\* exception and changes nothing in the cache: no entry for its key, the
\* other entries as they were; the next call for the key that returns has
\* compiled a new template.
C19_FailedCompileLeavesCache ==
    [][/\ lastcall'.kind = "Raise" =>
            /\ file_cache' = file_cache
            /\ file_cache'[Key(lastcall'.node)] = NoTemplate
            /\ lastcall'.template = NoTemplate
            /\ stored' = stored /\ written' = written
       /\ lastcall.kind = "Raise" /\ lastcall'.kind = "Return"
             /\ Key(lastcall'.node) = Key(lastcall.node) =>
            /\ lastcall'.compiled
            /\ lastcall'.template = [id |-> next_id,
                                     key |-> Key(lastcall.node)]
            /\ file_cache'[Key(lastcall.node)] = lastcall'.template
            /\ lastcall'.template \notin stored]_vars

\* after a clear() the compilation for node "a" has failed: its key has no
\* entry, although a template was stored for it earlier, and the entry of
\* the other key is there
C19_Witness ==
    /\ lastcall.kind = "Raise" /\ lastcall.node = "a"
    /\ file_cache[Key("a")] = NoTemplate
    /\ [id |-> 1, key |-> Key("a")] \in stored
    /\ file_cache[Key("c")] = [id |-> 2, key |-> Key("c")]

\* C20: when only track_call touches the MacroStack, the stack of a thread
\* is, outermost first, the unique_ids of its invocations that have pushed
\* and not yet unwound; the invocation about to unwind finds its own
\* identity on top, and no invocation ends with the mismatch error of pop,
\* whether it returns or raises.
C20_StackIsInFlight ==
    \A t \in Threads :
        /\ call_stack[local(t)] = InFlight(t)
        /\ \A i \in 1..Len(frames[t]) :
             LET f == frames[t][i]
                 below == Len(SelectSeq(SubSeq(frames[t], 1, i - 1),
                                        LAMBDA g : g.tracked))
             IN
             f.tracked =>
                /\ f.entry = below
                /\ call_stack[local(t)][below + 1] = f.macro
                /\ i = Len(frames[t]) =>
                      call_stack[local(t)][depth(call_stack[local(t)])] = f.macro
        /\ Finished(t) =>
             /\ ret[t].out.site # "pop"
             /\ ret[t].out.kind = "InternalException" =>
                   ret[t].out.site = "call_macro"
             /\ ret[t].tracked => ret[t].exit = depth(call_stack[local(t)])

\* three invocations in flight, the middle one made without a stack or a
\* node: the stack holds the first and the third, and the third is about
\* to unwind with an exception
C20_Witness ==
    \E t \in Threads :
        /\ Len(frames[t]) = 3
        /\ frames[t][1].tracked /\ frames[t][1].macro = "a"
        /\ ~frames[t][2].tracked /\ frames[t][2].pc = "body"
        /\ frames[t][3].tracked /\ frames[t][3].macro = "c"
        /\ frames[t][3].pc = "unwind" /\ IsException(frames[t][3].out)
        /\ call_stack[local(t)] = <<"a", "c">>

====
